---- MODULE Spec2Model ----
(***************************************************************************)
(* Model of the implify catalog API: the string/number normalizer, the    *)
(* three connection-size derivers (query-time in api/search.js and in the *)
(* facets handler, offline in scripts/enrich-connections.js), the filter  *)
(* engine, the facet aggregator, the search endpoint and the catalog      *)
(* loader with its module-level cache.                                    *)
(*                                                                         *)
(* Representation.                                                         *)
(*   - A JavaScript string is a sequence of one-character strings.  An    *)
(*     absent value (null / undefined) is the empty sequence: every use   *)
(*     of a field or query parameter in the modelled code treats null and *)
(*     "" alike (x || "", norm(x), truthiness tests, v == null || v===""). *)
(*   - A JavaScript number is an integer count of hundredths (4.1 is 410). *)
(*     The code's null / NaN number is the definition null.               *)
(*     Double-precision arithmetic agrees with this decimal arithmetic on *)
(*     every comparison the code makes except |a-b| < 0.11 for operands   *)
(*     exactly 0.11 apart; the bounded inputs hold no such pair.          *)
(***************************************************************************)
EXTENDS Integers, Sequences, FiniteSets, TLC

VARIABLES r, hintGingiva, conn, items, p, response, CACHE, calls, allocated

\* the loader's state: the module-level cache, the handler invocations in
\* flight, and the number of snapshot arrays stored so far
loadVars == <<CACHE, calls, allocated>>

vars == <<r, hintGingiva, conn, items, p, response, CACHE, calls, allocated>>

-----------------------------------------------------------------------------
(* Characters and strings                                                  *)

Digits == <<"0", "1", "2", "3", "4", "5", "6", "7", "8", "9">>

UpperLetters == <<"A", "B", "C", "D", "E", "F", "G", "H", "I", "J", "K", "L", "M",
                  "N", "O", "P", "Q", "R", "S", "T", "U", "V", "W", "X", "Y", "Z">>

LowerLetters == <<"a", "b", "c", "d", "e", "f", "g", "h", "i", "j", "k", "l", "m",
                  "n", "o", "p", "q", "r", "s", "t", "u", "v", "w", "x", "y", "z">>

IsDigit(c) == \E i \in 1..10 : Digits[i] = c

DigitVal(c) == (CHOOSE i \in 1..10 : Digits[i] = c) - 1

DigitChar(d) == Digits[d + 1]

IsSpace(c) == c \in {" ", "\t", "\n", "\r"}

IsWordChar(c) ==
  \/ IsDigit(c)
  \/ c = "_"
  \/ \E i \in 1..26 : UpperLetters[i] = c \/ LowerLetters[i] = c

LowerChar(c) ==
  IF \E i \in 1..26 : UpperLetters[i] = c
    THEN LowerLetters[CHOOSE i \in 1..26 : UpperLetters[i] = c]
    ELSE c

UpperChar(c) ==
  IF \E i \in 1..26 : LowerLetters[i] = c
    THEN UpperLetters[CHOOSE i \in 1..26 : LowerLetters[i] = c]
    ELSE c

toLowerCase(s) == [i \in 1..Len(s) |-> LowerChar(s[i])]

toUpperCase(s) == [i \in 1..Len(s) |-> UpperChar(s[i])]

\* String.prototype.trim
trim(s) ==
  LET keep == {i \in 1..Len(s) : ~IsSpace(s[i])}
  IN IF keep = {} THEN <<>>
     ELSE LET lo == CHOOSE i \in keep : \A j \in keep : i <= j
              hi == CHOOSE i \in keep : \A j \in keep : j <= i
          IN SubSeq(s, lo, hi)

\* haystack.includes(needle), as a position test
MatchesAt(s, w, i) ==
  /\ i >= 1
  /\ i + Len(w) - 1 <= Len(s)
  /\ \A k \in 1..Len(w) : s[i + k - 1] = w[k]

includes(s, w) == \E i \in 1..(Len(s) + 1) : MatchesAt(s, w, i)

\* /\b(w)\b/ for a word w that starts and ends with a word character
MatchesWord(s, w) ==
  \E i \in 1..Len(s) :
    /\ MatchesAt(s, w, i)
    /\ (i = 1 \/ ~IsWordChar(s[i - 1]))
    /\ (i + Len(w) > Len(s) \/ ~IsWordChar(s[i + Len(w)]))

\* [a, b, ...].filter(Boolean).join(sep)
RECURSIVE JoinNonEmpty(_, _)
JoinNonEmpty(parts, sep) ==
  IF parts = <<>> THEN <<>>
  ELSE LET rest == JoinNonEmpty(Tail(parts), sep)
       IN IF Head(parts) = <<>> THEN rest
          ELSE IF rest = <<>> THEN Head(parts)
          ELSE Head(parts) \o sep \o rest

-----------------------------------------------------------------------------
(* Normalizer                                                              *)

null == -1

Tolerance == 11

norm(v) == trim(v)

lower(v) == toLowerCase(norm(v))

\* String(x).replace(',', '.'): the first comma only
ReplaceFirstComma(s) ==
  IF \E i \in 1..Len(s) : s[i] = ","
    THEN LET i == CHOOSE k \in 1..Len(s) :
                    s[k] = "," /\ \A j \in 1..(k - 1) : s[j] # ","
         IN [s EXCEPT ![i] = "."]
    ELSE s

IsNumericChar(c) == IsDigit(c) \/ c = "."

\* the longest run of digits starting at position i of s
DigitRunEnd(s, i) ==
  IF \E k \in i..Len(s) : ~IsDigit(s[k])
    THEN (CHOOSE k \in i..Len(s) :
            ~IsDigit(s[k]) /\ \A j \in i..(k - 1) : IsDigit(s[j])) - 1
    ELSE Len(s)

RECURSIVE DigitsValue(_)
DigitsValue(ds) ==
  IF ds = <<>> THEN 0
  ELSE 10 * DigitsValue(SubSeq(ds, 1, Len(ds) - 1)) + DigitVal(ds[Len(ds)])

\* parseFloat of a string of digits and dots, in hundredths: the integer
\* digits, then at most one '.' with its fraction digits; NaN when no digit
\* is read.  Fraction digits past the second are dropped (the bounded
\* inputs carry at most two).
parseFloat(s) ==
  LET ie   == DigitRunEnd(s, 1)
      ints == SubSeq(s, 1, ie)
      fe   == IF ie < Len(s) /\ s[ie + 1] = "." THEN DigitRunEnd(s, ie + 2) ELSE ie + 1
      frac == IF ie < Len(s) /\ s[ie + 1] = "." THEN SubSeq(s, ie + 2, fe) ELSE <<>>
      f1   == IF Len(frac) >= 1 THEN DigitVal(frac[1]) ELSE 0
      f2   == IF Len(frac) >= 2 THEN DigitVal(frac[2]) ELSE 0
  IN IF ints = <<>> /\ frac = <<>> THEN null
     ELSE 100 * DigitsValue(ints) + 10 * f1 + f2

\* .replace(/[^\d.]/g, '') keeps the digits and dots, in order
toNum(x) == parseFloat(SelectSeq(ReplaceFirstComma(x), IsNumericChar))

Abs(n) == IF n < 0 THEN 0 - n ELSE n

\* approxEq on operands that are numbers already (toNum of a finite
\* non-negative number re-parses its own decimal text)
approxEqNum(na, nb) == na # null /\ nb # null /\ Abs(na - nb) < Tolerance

approxEq(a, b) == approxEqNum(toNum(a), toNum(b))

\* Number.prototype.toString for a non-negative integer
RECURSIVE IntToChars(_)
IntToChars(n) ==
  IF n < 10 THEN <<DigitChar(n)>>
  ELSE IntToChars(n \div 10) \o <<DigitChar(n % 10)>>

\* n.toFixed(1): one decimal, ties up (exact for the multiples of 0.1 and
\* for 3.75, the values the code formats here; other x.x5 inputs depend on
\* the double's expansion and are not among the bounded inputs)
toFixed1(n) ==
  LET t == (n + 5) \div 10
  IN IntToChars(t \div 10) \o <<".">> \o <<DigitChar(t % 10)>>

\* n.toFixed(2)
toFixed2(n) ==
  IntToChars(n \div 100) \o <<".">> \o <<DigitChar((n \div 10) % 10), DigitChar(n % 10)>>

normPlatform(v) ==
  LET s    == SelectSeq(toUpperCase(norm(v)), LAMBDA c : ~IsSpace(c))
      body == IF s # <<>> /\ s[1] = "P" THEN Tail(s) ELSE s
      m    == Len(body) \in {1, 2} /\ \A i \in 1..Len(body) : IsDigit(body[i])
  IN IF m
       THEN <<"P">> \o (IF Len(body) = 1 THEN <<"0">> \o body ELSE body)
       ELSE s

WithWords ==
  { <<"w","i","t","h">>, <<"m","i","t">>, <<"j","a">>, <<"y","e","s">>,
    <<"r","o","t","a","t","i","o","n">>,
    <<"r","s","c","h","u","t","z">>, <<"r","-","s","c","h","u","t","z">> }

WithoutWords ==
  { <<"w","i","t","h","o","u","t">>, <<"o","h","n","e">>,
    <<"n","e","i","n">>, <<"n","o">> }

parseRotation(val) ==
  LET s == lower(val)
  IN IF s = <<>> THEN ""
     ELSE IF \E w \in WithWords : MatchesWord(s, w) THEN "with"
     ELSE IF \E w \in WithoutWords : MatchesWord(s, w) THEN "without"
     ELSE ""

\* facets handler and enrich script: diameter_mm when present and non-empty,
\* else diameter_text
getPartDiameter(rec) ==
  IF rec.diameter_mm # <<>> THEN toNum(rec.diameter_mm)
  ELSE IF rec.diameter_text # <<>> THEN toNum(rec.diameter_text)
  ELSE null

\* api/search.js: the test is diameter_mm != null only (an empty-string
\* diameter_mm beside a diameter_text is not among the modelled records)
getPartDiameter_search(rec) ==
  IF rec.diameter_mm # <<>> THEN toNum(rec.diameter_mm)
  ELSE IF rec.diameter_text # <<>> THEN toNum(rec.diameter_text)
  ELSE null

-----------------------------------------------------------------------------
(* Text extraction                                                         *)

SpaceRunEnd(s, i) ==
  IF \E k \in i..Len(s) : ~IsSpace(s[k])
    THEN (CHOOSE k \in i..Len(s) :
            ~IsSpace(s[k]) /\ \A j \in i..(k - 1) : IsSpace(s[j])) - 1
    ELSE Len(s)

\* \s*mm (case-insensitive) at position k: the index of the second m, or 0
UnitEnd(s, k) ==
  LET sp == SpaceRunEnd(s, k)
  IN IF sp + 2 <= Len(s) /\ LowerChar(s[sp + 1]) = "m" /\ LowerChar(s[sp + 2]) = "m"
       THEN sp + 2 ELSE 0

\* /(\d+[.,]\d+|\d+)\s*mm/i anchored at position i: the index where the
\* match ends, or 0.  Every \d+ and \s* can only match its whole run: a
\* shorter one is followed by a digit (a space), which the next element of
\* the pattern rejects.
MMEnd(s, i) ==
  IF ~IsDigit(s[i]) THEN 0
  ELSE LET d1   == DigitRunEnd(s, i)
           alt1 == IF /\ d1 + 2 <= Len(s)
                      /\ s[d1 + 1] \in {".", ","}
                      /\ IsDigit(s[d1 + 2])
                     THEN UnitEnd(s, DigitRunEnd(s, d1 + 2) + 1)
                     ELSE 0
       IN IF alt1 # 0 THEN alt1 ELSE UnitEnd(s, d1 + 1)

\* s.replace(/(\d+[.,]\d+|\d+)\s*mm/gi, m => { push(toNum(m)) }): the
\* numbers of the matches from position i on, left to right
RECURSIVE MentionsFrom(_, _)
MentionsFrom(s, i) ==
  IF i > Len(s) THEN <<>>
  ELSE LET e == MMEnd(s, i)
       IN IF e = 0 THEN MentionsFrom(s, i + 1)
          ELSE <<toNum(SubSeq(s, i, e))>> \o MentionsFrom(s, e + 1)

Mentions(s) == MentionsFrom(s, 1)

\* Array.from(name.matchAll(/\(([^)]+)\)/g)).map(m => m[1])
RECURSIVE ParensFrom(_, _)
ParensFrom(s, i) ==
  IF i > Len(s) THEN <<>>
  ELSE IF s[i] = "(" /\ \E j \in (i + 1)..Len(s) : s[j] = ")"
    THEN LET j == CHOOSE k \in (i + 1)..Len(s) :
                    s[k] = ")" /\ \A l \in (i + 1)..(k - 1) : s[l] # ")"
         IN IF j = i + 1 THEN ParensFrom(s, i + 1)
            ELSE <<SubSeq(s, i + 1, j - 1)>> \o ParensFrom(s, j + 1)
    ELSE ParensFrom(s, i + 1)

Parens(s) == ParensFrom(s, 1)

\* the single-word alternatives of the keyword pattern of the query-time
\* derivers: certain|internal|external|eztetic|tsx|platform|hex
KeywordsQuery ==
  { <<"c","e","r","t","a","i","n">>, <<"i","n","t","e","r","n","a","l">>,
    <<"e","x","t","e","r","n","a","l">>, <<"e","z","t","e","t","i","c">>,
    <<"t","s","x">>, <<"p","l","a","t","f","o","r","m">>, <<"h","e","x">> }

\* the enrich script adds |connection
KeywordsEnrich == KeywordsQuery \cup { <<"c","o","n","n","e","c","t","i","o","n">> }

\* the alternative ext\s*hex
MatchesExtHex(s) ==
  \E i \in 1..Len(s) :
    /\ MatchesAt(s, <<"e","x","t">>, i)
    /\ MatchesAt(s, <<"h","e","x">>, SpaceRunEnd(s, i + 3) + 1)

kwTest(seg, keywords) ==
  LET s == toLowerCase(seg)
  IN MatchesExtHex(s) \/ \E k \in keywords : includes(s, k)

\* [name_de, name_long_de, Artikel_Name, Artikel_Name_long]
\*   .map(norm).filter(Boolean).join(" | ")
NameOf(rec) ==
  JoinNonEmpty(<<norm(rec.name_de), norm(rec.name_long_de),
                 norm(rec.Artikel_Name), norm(rec.Artikel_Name_long)>>,
               <<" ", "|", " ">>)

RECURSIVE PoolMentions(_, _)
PoolMentions(pools, keywords) ==
  IF pools = <<>> THEN <<>>
  ELSE (IF kwTest(Head(pools), keywords) THEN Mentions(Head(pools)) ELSE <<>>)
         \o PoolMentions(Tail(pools), keywords)

\* the candidates mm of the facets-handler and enrich derivers: the mentions
\* of the keyword-bearing pools, else the mentions of the whole name
FallBack(mm, name) == IF mm = <<>> THEN Mentions(name) ELSE mm

Pools(parens, name) == IF parens # <<>> THEN parens ELSE <<name>>

Candidates(name, keywords) ==
  FallBack(PoolMentions(Pools(Parens(name), name), keywords), name)

-----------------------------------------------------------------------------
(* Connection-size derivers                                                *)

RangeLo == 300

RangeHi == 650

\* r.Platfform_Prothetikdurchmesser || r.plattform_prothetikdurchmesser
\*   || r.platform_prothetikdurchmesser
ExplicitField(rec) ==
  IF rec.Platfform_Prothetikdurchmesser # <<>> THEN rec.Platfform_Prothetikdurchmesser
  ELSE IF rec.plattform_prothetikdurchmesser # <<>> THEN rec.plattform_prothetikdurchmesser
  ELSE rec.platform_prothetikdurchmesser

\* `if (x)` on a number-or-null
Truthy(n) == n # null /\ n # 0

\* mm.filter(v => (partDia==null || !approxEq(v, partDia)) &&
\*                (hint==null || !approxEq(v, hint)) && v >= 3.0 && v <= 6.5);
\* the enrich script has no hint (hint = null here)
Survivors(mm, partDia, hint) ==
  LET Keep(v) == /\ (partDia = null \/ ~approxEqNum(v, partDia))
                 /\ (hint = null \/ ~approxEqNum(v, hint))
                 /\ v >= RangeLo /\ v <= RangeHi
  IN SelectSeq(mm, Keep)

\* the return statements of the facets handler's deriver, given the explicit
\* candidate, the text candidates mm, the surviving ones and the diameter
Decide(cand, mm, filtered, partDia) ==
  IF Truthy(cand) THEN cand
  ELSE IF filtered # <<>> THEN filtered[1]
  ELSE IF ~Truthy(partDia) /\ Len(mm) = 1 THEN mm[1]
  ELSE null

\* the text candidates of a record for the query-time deriver
TextCandidates(rec) == Candidates(NameOf(rec), KeywordsQuery)

\* the facets handler's deriver (also the second half of api/search.js)
deriveConnectionMM(rec, hint_in) ==
  Decide(toNum(ExplicitField(rec)), TextCandidates(rec),
         Survivors(TextCandidates(rec), getPartDiameter(rec), toNum(hint_in)),
         getPartDiameter(rec))

\* the decision of the search endpoint's deriver
Decide_search(cand, mm, partDia) ==
  LET Keep(v) == ~approxEqNum(v, partDia)
      list    == SelectSeq(mm, Keep)
  IN IF Truthy(cand) THEN cand
     ELSE IF Len(list) = 1 THEN list[1]
     ELSE IF ~Truthy(partDia) /\ Len(mm) = 1 THEN mm[1]
     ELSE IF Len(list) > 1 THEN list[1]
     ELSE IF Len(mm) = 1 THEN mm[1]
     ELSE null

\* the search endpoint's deriver (api/search.js, first half)
deriveConnectionMM_search(rec) ==
  Decide_search(toNum(ExplicitField(rec)), Mentions(NameOf(rec)),
                getPartDiameter_search(rec))

\* the whitelist of the enrich script, as the strings of its Set
allow ==
  { <<"3",".","3">>, <<"3",".","4">>, <<"3",".","5">>, <<"3",".","7","5">>,
    <<"4",".","1">>, <<"4",".","5">>, <<"4",".","8">>, <<"5",".","0">>,
    <<"5",".","5">>, <<"5",".","7">> }

SnapCenter == 375

SnapWidth == 6

\* normConn of the enrich script: snap to 3.75, else Math.round(v*10)/10
normConn(v) ==
  IF Abs(v - SnapCenter) < SnapWidth THEN SnapCenter
  ELSE ((v + 5) \div 10) * 10

Allowed(vv) == toFixed2(vv) \in allow \/ toFixed1(vv) \in allow

PlatformDefault41 == 410

PlatformDefault50 == 500

\* for (const v of filtered) { vv = normConn(v); if (allowed) return vv }
FirstAllowed(filtered) ==
  LET Pass(v) == Allowed(normConn(v))
      passing == SelectSeq(filtered, Pass)
  IN IF passing # <<>> THEN normConn(passing[1]) ELSE null

\* the text candidates of a record for the offline deriver
TextCandidates_enrich(rec) == Candidates(NameOf(rec), KeywordsEnrich)

\* the decision of the offline deriver, given the uppercased platform
Decide_enrich(explicit, plat, filtered) ==
  IF explicit # <<>> THEN toNum(explicit)
  ELSE IF plat = <<"P","0","6">> THEN PlatformDefault41
  ELSE IF plat = <<"P","0","7">> THEN PlatformDefault50
  ELSE FirstAllowed(filtered)

\* the offline deriver (scripts/enrich-connections.js)
deriveConnectionMM_enrich(rec) ==
  Decide_enrich(rec.connection_mm, toUpperCase(norm(rec.platform)),
                Survivors(TextCandidates_enrich(rec), getPartDiameter(rec), null))

-----------------------------------------------------------------------------
(* Filter engine                                                           *)

Universal == <<"u","n","i","v","e","r","s","a","l">>

\* the words the filter looks for in a record's rotationsschutz text
FieldWithWords ==
  { <<"m","i","t">>, <<"j","a">>, <<"w","i","t","h">>,
    <<"r","o","t","a","t","i","o","n">>,
    <<"r","s","c","h","u","t","z">>, <<"r","-","s","c","h","u","t","z">> }

FieldWithoutWords ==
  { <<"o","h","n","e">>, <<"n","e","i","n">>, <<"w","i","t","h","o","u","t">> }

\* p.get("connection_mm") || p.get("prothetik_diameter_mm")
ConnectionParam(prm) ==
  IF prm.connection_mm # <<>> THEN prm.connection_mm ELSE prm.prothetik_diameter_mm

\* platformIn === "universal" ? "universal" : normPlatform(platformIn)
PlatformParam(prm) ==
  IF prm.platform = Universal THEN Universal ELSE normPlatform(prm.platform)

\* the callback of items.filter in applyFilters and in the search handler;
\* c is the record's derived connection size, which each endpoint computes
\* with its own deriver
KeepRecord(rec, prm, c) ==
  LET q          == lower(prm.q)
      group      == lower(prm.group)
      prodGroup  == lower(prm.product_group)
      diameter   == prm.diameter_mm
      length     == prm.length_mm
      gingiva    == prm.gingiva_mm
      angulation == prm.angulation_deg
      connection == ConnectionParam(prm)
      abformung  == lower(prm.abformung)
      color      == lower(prm.color)
      rotation   == parseRotation(prm.rotationsschutz)
      variant    == lower(prm.variant)
      platform   == PlatformParam(prm)
      hay        == toLowerCase(rec.sku \o <<" ">> \o rec.mfg_code \o <<" ">>
                                \o rec.name_de \o <<" ">> \o rec.name_long_de)
      field      == lower(rec.rotationsschutz)
      isWith     == \E w \in FieldWithWords : MatchesWord(field, w)
      isWithout  == \E w \in FieldWithoutWords : MatchesWord(field, w)
      blob       == lower(rec.ausfuehrung) \o <<" ">> \o lower(rec.rotationsschutz)
                      \o <<" ">> \o lower(rec.zubehoer)
  IN /\ (q # <<>> => includes(hay, q))
     /\ (platform # <<>> =>
           IF platform = Universal THEN rec.platform = <<>>
           ELSE toUpperCase(rec.platform) = platform)
     /\ (group # <<>> => lower(rec.group) = group)
     /\ (prodGroup # <<>> => lower(rec.product_group) = prodGroup)
     /\ (diameter # <<>> => approxEq(rec.diameter_mm, diameter))
     /\ (length # <<>> => approxEq(rec.length_mm, length))
     /\ (gingiva # <<>> => approxEq(rec.gingiva_mm, gingiva))
     /\ (angulation # <<>> => approxEq(rec.angulation_deg, angulation))
     /\ (connection # <<>> => approxEqNum(c, toNum(connection)))
     /\ (abformung # <<>> => lower(rec.abformung) = abformung)
     /\ (color # <<>> => lower(rec.color) = color)
     /\ (rotation = "with" => isWith)
     /\ (rotation = "without" => isWithout)
     /\ (variant # <<>> => includes(blob, variant))

\* applyFilters of the facets handler
applyFilters(recs, prm) ==
  LET Keep(rec) == KeepRecord(rec, prm, deriveConnectionMM(rec, prm.gingiva_mm))
  IN SelectSeq(recs, Keep)

\* the filter of the search handler
searchFilter(recs, prm) ==
  LET Keep(rec) == KeepRecord(rec, prm, deriveConnectionMM_search(rec))
  IN SelectSeq(recs, Keep)

-----------------------------------------------------------------------------
(* Facet aggregator                                                        *)

FacetCap == 50

Min(a, b) == IF a <= b THEN a ELSE b

\* map.set(key, (map.get(key) || 0) + 1) over the keys in order: a Map keeps
\* its keys in the order of their first insertion
RECURSIVE CountKeys(_, _)
CountKeys(keys, map) ==
  IF keys = <<>> THEN map
  ELSE LET k == Head(keys)
           next == IF \E i \in 1..Len(map) : map[i].value = k
                     THEN [i \in 1..Len(map) |->
                             IF map[i].value = k
                               THEN [map[i] EXCEPT !.count = @ + 1]
                               ELSE map[i]]
                     ELSE Append(map, [value |-> k, count |-> 1])
       IN CountKeys(Tail(keys), next)

\* the stable Array.prototype.sort((a,b) => b[1]-a[1]): e goes behind every
\* entry whose count is at least its own
InsertByCount(sorted, e) ==
  LET before == SelectSeq(sorted, LAMBDA x : x.count >= e.count)
      after  == SelectSeq(sorted, LAMBDA x : x.count < e.count)
  IN before \o <<e>> \o after

RECURSIVE SortByCount(_)
SortByCount(entries) ==
  IF entries = <<>> THEN <<>>
  ELSE InsertByCount(SortByCount(SubSeq(entries, 1, Len(entries) - 1)),
                     entries[Len(entries)])

\* .slice(0, n) for an integer n >= 0
Slice(seq, n) == SubSeq(seq, 1, Min(n, Len(seq)))

\* the keys countValues counts for the values vals of one field
RECURSIVE FacetKeys(_, _)
FacetKeys(vals, numeric) ==
  IF vals = <<>> THEN <<>>
  ELSE LET v == Head(vals)
           skip == v = <<>> \/ (numeric /\ toNum(v) = null)
       IN (IF skip THEN <<>>
           ELSE IF numeric THEN <<toFixed1(toNum(v))>>
           ELSE <<v>>) \o FacetKeys(Tail(vals), numeric)

\* countValues(items, field, numeric), given the field's values
countValues(vals, numeric) ==
  Slice(SortByCount(CountKeys(FacetKeys(vals, numeric), <<>>)), FacetCap)

FieldValues(recs, f) == [i \in 1..Len(recs) |-> recs[i][f]]

\* parseFloat of a raw string: leading blanks are skipped, then the number
\* is read up to the first character that cannot continue it (signs and
\* exponents are not among the bounded inputs)
parseFloatRaw(s) ==
  LET lead == SpaceRunEnd(s, 1)
  IN parseFloat(SubSeq(s, lead + 1, Len(s)))

\* a variant of the bucket label that rounds to whole millimetres
\* (Math.round(v) in place of Math.round(v * 10) / 10)
normConn_whole(v) ==
  IF Abs(v - SnapCenter) < SnapWidth THEN <<"3",".","7","5">>
  ELSE toFixed1(((v + 50) \div 100) * 100)

\* normConn of the facets handler: the bucket label
normConn_facets(v) ==
  IF Abs(v - SnapCenter) < SnapWidth THEN <<"3",".","7","5">>
  ELSE toFixed1(((v + 5) \div 10) * 10)

\* whether the facets handler counts the derived value v under the hint
\* value h (parseFloat of the raw gingiva_mm parameter)
ConnCounted(v, gingivaHint, h) ==
  /\ v # null
  /\ v >= RangeLo /\ v <= RangeHi
  /\ ~(gingivaHint # <<>> /\ h # null /\ Abs(v - h) < Tolerance)

ConnKey(v, gingivaHint, h) ==
  IF ConnCounted(v, gingivaHint, h) THEN <<normConn_facets(v)>> ELSE <<>>

\* the bucket labels of the connection facet, one per counted record
RECURSIVE ConnKeys(_, _)
ConnKeys(recs, gingivaHint) ==
  IF recs = <<>> THEN <<>>
  ELSE ConnKey(deriveConnectionMM(Head(recs), gingivaHint), gingivaHint,
               parseFloatRaw(gingivaHint))
         \o ConnKeys(Tail(recs), gingivaHint)

connFacet(recs, gingivaHint) ==
  LET entries == CountKeys(ConnKeys(recs, gingivaHint), <<>>)
      cleaned == IF Len(entries) > 1
                   THEN SelectSeq(entries, LAMBDA e : e.count >= 2)
                   ELSE entries
  IN SortByCount(cleaned)

platformScope(recs) ==
  << [value |-> <<"p","l","a","t","f","o","r","m">>,
      count |-> Len(SelectSeq(recs, LAMBDA x : x.platform # <<>>))],
     [value |-> Universal,
      count |-> Len(SelectSeq(recs, LAMBDA x : x.platform = <<>>))] >>

\* the facets object of the facets handler
Facets(filtered, gingivaHint) ==
  [ platform        |-> countValues(FieldValues(filtered, "platform"), FALSE),
    platform_scope  |-> platformScope(filtered),
    product_group   |-> countValues(FieldValues(filtered, "product_group"), FALSE),
    group           |-> countValues(FieldValues(filtered, "group"), FALSE),
    diameter_mm     |-> countValues(FieldValues(filtered, "diameter_mm"), TRUE),
    length_mm       |-> countValues(FieldValues(filtered, "length_mm"), TRUE),
    gingiva_mm      |-> countValues(FieldValues(filtered, "gingiva_mm"), TRUE),
    angulation_deg  |-> countValues(FieldValues(filtered, "angulation_deg"), TRUE),
    connection_mm   |-> connFacet(filtered, gingivaHint),
    abformung       |-> countValues(FieldValues(filtered, "abformung"), FALSE),
    ausfuehrung     |-> countValues(FieldValues(filtered, "ausfuehrung"), FALSE),
    rotationsschutz |-> countValues(FieldValues(filtered, "rotationsschutz"), FALSE),
    color           |-> countValues(FieldValues(filtered, "color"), FALSE) ]

FacetNames == DOMAIN Facets(<<>>, <<>>)

-----------------------------------------------------------------------------
(* Search endpoint                                                         *)

LimitMin == 1

LimitMax == 50

DefaultLimit == <<"1", "0">>

NaN == [nan |-> TRUE, n |-> 0]

IntOf(n) == [nan |-> FALSE, n |-> n]

\* parseInt(s, 10): leading blanks, an optional sign, then digits; NaN when
\* no digit follows
parseInt(s) ==
  LET lead   == SpaceRunEnd(s, 1)
      t      == SubSeq(s, lead + 1, Len(s))
      signed == t # <<>> /\ t[1] \in {"+", "-"}
      body   == IF signed THEN Tail(t) ELSE t
      ds     == SubSeq(body, 1, DigitRunEnd(body, 1))
  IN IF ds = <<>> THEN NaN
     ELSE IF signed /\ t[1] = "-" THEN IntOf(0 - DigitsValue(ds))
     ELSE IntOf(DigitsValue(ds))

\* Math.min / Math.max propagate NaN
MathMin(a, b) == IF a.nan \/ b.nan THEN NaN ELSE IF a.n <= b.n THEN a ELSE b

MathMax(a, b) == IF a.nan \/ b.nan THEN NaN ELSE IF a.n >= b.n THEN a ELSE b

\* Math.max(1, Math.min(50, parseInt(p.get("limit") || "10", 10)))
Limit(prm) ==
  MathMax(IntOf(LimitMin),
          MathMin(IntOf(LimitMax),
                  parseInt(IF prm.limit # <<>> THEN prm.limit ELSE DefaultLimit)))

\* result.slice(0, limit): a NaN end is 0
SliceLimit(seq, limit) == IF limit.nan THEN <<>> ELSE Slice(seq, limit.n)

\* the public shape of one search item
Shape(rec) ==
  [ sku |-> rec.sku, mfg_code |-> rec.mfg_code, name_de |-> rec.name_de,
    platform |-> rec.platform,
    platform_scope |-> IF rec.platform # <<>> THEN "platform" ELSE "universal",
    product_group |-> rec.product_group, group |-> rec.group,
    diameter_mm |-> rec.diameter_mm, length_mm |-> rec.length_mm,
    gingiva_mm |-> rec.gingiva_mm, angulation_deg |-> rec.angulation_deg,
    connection_mm |-> deriveConnectionMM_search(rec),
    abformung |-> rec.abformung, ausfuehrung |-> rec.ausfuehrung,
    rotationsschutz |-> rec.rotationsschutz, color |-> rec.color ]

SearchItems(recs, prm) ==
  LET result == SliceLimit(searchFilter(recs, prm), Limit(prm))
  IN [i \in 1..Len(result) |-> Shape(result[i])]

-----------------------------------------------------------------------------
(* Bounded inputs                                                          *)

\* the mentions inside one parenthesized segment of a generated name
MaxMentions == 2

\* the records of a catalog
MaxItems == 2

\* a record with every field absent
BaseRecord ==
  [ sku |-> <<>>, mfg_code |-> <<>>,
    name_de |-> <<>>, name_long_de |-> <<>>,
    Artikel_Name |-> <<>>, Artikel_Name_long |-> <<>>,
    platform |-> <<>>, group |-> <<>>, product_group |-> <<>>,
    diameter_mm |-> <<>>, diameter_text |-> <<>>, length_mm |-> <<>>,
    gingiva_mm |-> <<>>, angulation_deg |-> <<>>,
    connection_mm |-> <<>>,
    Platfform_Prothetikdurchmesser |-> <<>>,
    plattform_prothetikdurchmesser |-> <<>>,
    platform_prothetikdurchmesser |-> <<>>,
    abformung |-> <<>>, color |-> <<>>, ausfuehrung |-> <<>>,
    rotationsschutz |-> <<>>, zubehoer |-> <<>> ]

T_4_1  == <<"4", ",", "1">>
T_5_0  == <<"5", ".", "0">>
T_4_0  == <<"4", ".", "0">>
T_4    == <<"4">>
T_9_0  == <<"9", ".", "0">>
T_abc  == <<"a", "b", "c">>
T_mm   == <<" ", "m", "m">>

\* "<n> mm" mentions as they stand in product names
M_4_1  == T_4_1 \o T_mm
M_5_0  == T_5_0 \o <<"m", "m">>
M_3_71 == <<"3", ",", "7", "1">> \o T_mm
M_4_12 == <<"4", ".", "1", "2">> \o T_mm
M_4    == T_4 \o T_mm
M_10   == <<"1", "0">> \o T_mm
M_6_0  == <<"6", ",", "0">> \o T_mm

InnerMentions == {M_4_1, M_3_71, M_4_12, M_4, M_6_0}

OuterBefore == {<<>>, M_5_0, M_4}

OuterAfter == {<<>>, M_5_0, M_10}

SeqsUpTo(S, n) == UNION {[1..k -> S] : k \in 0..n}

RECURSIVE JoinAll(_, _)
JoinAll(parts, sep) ==
  IF parts = <<>> THEN <<>>
  ELSE IF Len(parts) = 1 THEN parts[1]
  ELSE parts[1] \o sep \o JoinAll(Tail(parts), sep)

\* parenthesized segments: with or without an interface keyword, holding up
\* to MaxMentions mentions
Segments ==
  { <<"(">> \o JoinAll(kw \o ms, <<",", " ">>) \o <<")">> :
      kw \in {<<>>, << <<"E","x","t"," ","H","e","x">> >>, << <<"A","b">> >>},
      ms \in SeqsUpTo(InnerMentions, MaxMentions) }

\* product names: an optional mention, an optional parenthesized segment,
\* an optional mention
Names ==
  { JoinNonEmpty(<<<<"A","b">>, b, s, a>>, <<" ">>) :
      b \in OuterBefore, s \in {<<>>} \cup Segments, a \in OuterAfter }

SmallNames ==
  { <<>>,
    <<"A","b"," ">> \o M_5_0,
    <<"(","H","e","x",","," ">> \o M_4_1 \o <<")">> }

Diameters == {<<>>, T_5_0, T_4}

Explicits == {<<>>, T_4_1, T_9_0, T_4_0, <<"0">>, T_abc}

Platforms == {<<>>, <<"6">>, <<"p","6">>, <<"P","0","6">>, <<"P","0","7">>, <<"P","1","2">>}

Hints == {<<>>, T_4_0, T_4_1, T_abc}

\* records whose connection size comes from the name text
TextRecords ==
  { [BaseRecord EXCEPT !.name_de = n, !.diameter_mm = d] :
      n \in Names, d \in Diameters }

\* records with an explicit connection field (the query-time spelling, or
\* connection_mm as the enrich script writes it)
ExplicitRecords ==
  { [BaseRecord EXCEPT !.Platfform_Prothetikdurchmesser = e, !.connection_mm = c,
                       !.name_de = n, !.diameter_mm = d] :
      e \in Explicits, c \in Explicits \ {<<"0">>}, n \in SmallNames, d \in Diameters }

\* records with a platform, and names split over two fields
PlatformRecords ==
  { [BaseRecord EXCEPT !.platform = pl, !.name_de = n, !.name_long_de = l,
                       !.diameter_mm = d] :
      pl \in Platforms, n \in SmallNames, l \in SmallNames, d \in Diameters }

DeriveRecords == TextRecords \cup ExplicitRecords \cup PlatformRecords

-----------------------------------------------------------------------------
(* Catalog loader                                                          *)

\* the handler invocations that run in one process
MaxRequests == 2

Requests == 1..MaxRequests

\* CACHE.products === null; a stored array is [id, items], id its identity
NoProducts == [id |-> 0, items |-> <<>>]

\* a handler invocation that has not started
NewCall ==
  [pc |-> "new", res |-> "none", text |-> <<>>, items |-> NoProducts, status |-> 0]

NoCalls == [c \in Requests |-> NewCall]

\* text.split(/\r?\n/)
RECURSIVE SplitLines(_)
SplitLines(text) ==
  IF \A i \in 1..Len(text) : text[i] # "\n" THEN <<text>>
  ELSE LET n    == CHOOSE i \in 1..Len(text) :
                     text[i] = "\n" /\ \A j \in 1..(i - 1) : text[j] # "\n"
           cut  == IF n > 1 /\ text[n - 1] = "\r" THEN n - 2 ELSE n - 1
       IN <<SubSeq(text, 1, cut)>> \o SplitLines(SubSeq(text, n + 1, Len(text)))

Quote == "\""

\* the JSON text {"sku":"<c>"}
ObjectText(c) == <<"{", Quote, "s", "k", "u", Quote, ":", Quote, c, Quote, "}">>

Threw == [kind |-> "throws", value |-> BaseRecord]

\* JSON.parse on the texts of the bounded documents: surrounding white
\* space is skipped, {"sku":"<c>"} is an object, [1] is an array, anything
\* else throws
JSONparse(line) ==
  IF trim(line) = <<"[", "1", "]">> THEN [kind |-> "array", value |-> BaseRecord]
  ELSE IF Len(trim(line)) = 11 /\ trim(line) = ObjectText(trim(line)[9])
            /\ IsWordChar(trim(line)[9])
    THEN [kind |-> "object", value |-> [BaseRecord EXCEPT !.sku = <<trim(line)[9]>>]]
  ELSE Threw

StartsWithBrace(l) == l # <<>> /\ l[1] = "{"

TrimAll(lines) == [i \in 1..Len(lines) |-> trim(lines[i])]

\* a variant that tests the raw lines (the .map((l) => l.trim()) left out)
BraceLines_untrimmed(text) == SelectSeq(SplitLines(text), StartsWithBrace)

\* text.split(/\r?\n/).map((l) => l.trim()).filter((l) => l.startsWith("{"))
BraceLines(text) == SelectSeq(TrimAll(SplitLines(text)), StartsWithBrace)

\* for (const line of lines) { try { items.push(JSON.parse(line)); } catch (_) {} }
RECURSIVE PushParsed(_)
PushParsed(lines) ==
  IF lines = <<>> THEN <<>>
  ELSE (IF JSONparse(Head(lines)).kind = "throws" THEN <<>>
        ELSE <<JSONparse(Head(lines)).value>>) \o PushParsed(Tail(lines))

\* the items loadProducts parses out of the fetched text
ParseProducts(text) == PushParsed(BraceLines(text))

LF == <<"\n">>

CRLF == <<"\r", "\n">>

L_a == ObjectText("a")

L_d == ObjectText("d")

L_note == <<"#", " ", "x">>

L_broken == <<"{", "o", "o", "p", "s">>

L_array == <<"[", "1", "]">>

\* the texts the catalog URL may serve
Documents ==
  { <<>>,
    L_note \o LF \o L_broken \o LF \o L_array,
    L_a,
    L_a \o CRLF \o CRLF \o <<" ", " ">> \o L_d \o <<" ">> \o CRLF,
    L_broken \o LF \o L_a \o LF \o L_note \o LF \o L_d,
    L_array \o LF \o L_d \o LF \o <<"\t">> \o L_a }

\* how the fetch of the catalog settles
FetchOutcomes == {"ok", "not ok", "rejected"}

-----------------------------------------------------------------------------
(* The derivers applied to one record                                      *)

NoCall == [fn |-> "none", value |-> null]

NoParams == <<>>

NoResponse == [kind |-> "none"]

InitDerive ==
  /\ r \in DeriveRecords
  /\ hintGingiva \in Hints
  /\ conn = NoCall
  /\ items = <<>>
  /\ p = NoParams
  /\ response = NoResponse
  /\ CACHE = [products |-> NoProducts]
  /\ calls = NoCalls
  /\ allocated = 0

DeriveFacets ==
  /\ conn = NoCall
  /\ conn' = [fn |-> "facets", value |-> deriveConnectionMM(r, hintGingiva)]
  /\ UNCHANGED <<r, hintGingiva, items, p, response>>
  /\ UNCHANGED loadVars

DeriveSearch ==
  /\ conn = NoCall
  /\ conn' = [fn |-> "search", value |-> deriveConnectionMM_search(r)]
  /\ UNCHANGED <<r, hintGingiva, items, p, response>>
  /\ UNCHANGED loadVars

DeriveEnrich ==
  /\ conn = NoCall
  /\ conn' = [fn |-> "enrich", value |-> deriveConnectionMM_enrich(r)]
  /\ UNCHANGED <<r, hintGingiva, items, p, response>>
  /\ UNCHANGED loadVars

NextDerive == DeriveFacets \/ DeriveSearch \/ DeriveEnrich

SpecDerive == InitDerive /\ [][NextDerive]_vars

-----------------------------------------------------------------------------
(* The two endpoints over a loaded catalog                                 *)

W_Abutment == <<"A","b","u","t","m","e","n","t">>

\* keyword parenthesis listing a height and a connection size; the part's
\* gingiva height is 4.0
RecA ==
  [BaseRecord EXCEPT
     !.sku = <<"a">>, !.platform = <<"P","0","6">>, !.group = W_Abutment,
     !.name_de = <<"(","H","e","x",","," ">> \o M_4 \o <<",", " ">>
                   \o <<"4",",","5">> \o T_mm \o <<")">>,
     !.gingiva_mm = T_4_0, !.diameter_mm = T_5_0,
     !.rotationsschutz = <<"m","i","t">>]

\* universal part enriched with an explicit connection_mm
RecB ==
  [BaseRecord EXCEPT
     !.sku = <<"b">>, !.name_de = <<"A","b"," ">> \o M_5_0,
     !.diameter_mm = T_5_0, !.connection_mm = T_4_1,
     !.rotationsschutz = <<"y","e","s">>, !.color = <<"G","o","l","d">>]

\* explicit query-time connection field
RecC ==
  [BaseRecord EXCEPT
     !.sku = <<"c">>, !.platform = <<"P","0","7">>,
     !.Platfform_Prothetikdurchmesser = T_4_1, !.name_de = <<"A","b">>,
     !.gingiva_mm = T_4_0, !.length_mm = <<"1","0">>,
     !.angulation_deg = <<"1","5">>, !.abformung = <<"o","p","e","n">>,
     !.product_group = W_Abutment, !.rotationsschutz = <<"o","h","n","e">>]

\* one noisy mention, no diameter
RecD ==
  [BaseRecord EXCEPT
     !.sku = <<"d">>, !.group = toLowerCase(W_Abutment),
     !.name_de = <<"A","b"," ","("," ">> \o M_3_71 \o <<")">>,
     !.ausfuehrung = <<"H","e","x">>, !.zubehoer = <<"n","o">>]

\* one out-of-range mention in the long name
RecE ==
  [BaseRecord EXCEPT
     !.sku = <<"e">>, !.platform = <<"P","1","2">>,
     !.name_long_de = <<"A","b"," ">> \o M_10,
     !.gingiva_mm = <<"2">>, !.diameter_mm = T_4_1]

\* one mention that rounds to 4.1; the part's gingiva height is 4.0
RecF ==
  [BaseRecord EXCEPT
     !.sku = <<"f">>, !.name_de = <<"A","b"," ">> \o M_4_12,
     !.gingiva_mm = T_4_0]

CatalogRecords == {RecA, RecB, RecC, RecD, RecE, RecF}

\* a cached snapshot is never empty (loadProducts throws on no records)
Catalogs == UNION {[1..k -> CatalogRecords] : k \in 1..MaxItems}

BaseParams ==
  [ q |-> <<>>, platform |-> <<>>, group |-> <<>>, product_group |-> <<>>,
    diameter_mm |-> <<>>, length_mm |-> <<>>, gingiva_mm |-> <<>>,
    angulation_deg |-> <<>>, connection_mm |-> <<>>,
    prothetik_diameter_mm |-> <<>>, abformung |-> <<>>, color |-> <<>>,
    rotationsschutz |-> <<>>, variant |-> <<>>, limit |-> <<>> ]

ParamNames == DOMAIN BaseParams

NumericQueries ==
  { [BaseParams EXCEPT !.diameter_mm = d, !.gingiva_mm = g, !.connection_mm = c] :
      d \in {<<>>, T_5_0, T_abc},
      g \in {<<>>, T_4_0, T_abc},
      c \in {<<>>, <<"4",",","5">>, T_4_1, T_abc} }

LimitQueries ==
  { [BaseParams EXCEPT !.limit = l, !.connection_mm = c] :
      l \in {<<>>, <<"1">>, <<"0">>, <<"9","9">>, <<"-","5">>, T_abc},
      c \in {<<>>, T_4_1} }

TextQueries ==
  { [BaseParams EXCEPT !.platform = pl, !.rotationsschutz = ro, !.q = q, !.group = g] :
      pl \in {<<>>, Universal, <<"6">>, <<"p","0","7">>},
      ro \in {<<>>, <<"m","i","t">>, <<"n","o">>, <<"y","e","s">>},
      q  \in {<<>>, <<"h","e","x">>},
      g  \in {<<>>, W_Abutment} }

SingleQueries ==
  { [BaseParams EXCEPT !.length_mm = <<"1","0">>],
    [BaseParams EXCEPT !.length_mm = T_abc],
    [BaseParams EXCEPT !.angulation_deg = <<"1","5">>],
    [BaseParams EXCEPT !.angulation_deg = T_abc],
    [BaseParams EXCEPT !.abformung = <<"O","p","e","n">>],
    [BaseParams EXCEPT !.color = <<"g","o","l","d">>],
    [BaseParams EXCEPT !.product_group = toLowerCase(W_Abutment)],
    [BaseParams EXCEPT !.variant = <<"h","e","x">>],
    [BaseParams EXCEPT !.prothetik_diameter_mm = T_4_1] }

Queries == NumericQueries \cup LimitQueries \cup TextQueries \cup SingleQueries

Init ==
  /\ items \in Catalogs
  /\ p \in Queries
  /\ response = NoResponse
  /\ r = BaseRecord
  /\ hintGingiva = <<>>
  /\ conn = NoCall
  /\ CACHE = [products |-> [id |-> 1, items |-> items]]
  /\ calls = NoCalls
  /\ allocated = 1

\* GET /api/facets over the cached snapshot
FacetsRequest ==
  /\ response' = [kind |-> "facets", status |-> 200,
                  facets |-> Facets(applyFilters(items, p), p.gingiva_mm)]
  /\ UNCHANGED <<items, p, r, hintGingiva, conn>>
  /\ UNCHANGED loadVars

\* GET /api/search over the cached snapshot
SearchRequest ==
  /\ response' = [kind |-> "search", status |-> 200,
                  items |-> SearchItems(items, p)]
  /\ UNCHANGED <<items, p, r, hintGingiva, conn>>
  /\ UNCHANGED loadVars

Next == FacetsRequest \/ SearchRequest

Spec == Init /\ [][Next]_vars

-----------------------------------------------------------------------------
(* Concurrent requests to the search endpoint, from a cold start           *)

ErrorResponse == [kind |-> "error", status |-> 500]

\* the rest of the handler once loadProducts has returned the array snapshot
Respond(snapshot) ==
  [kind |-> "search", status |-> 200, items |-> SearchItems(snapshot.items, p)]

\* the handler's catch block: the invocation ends with the 500 response
Fails(c, res, text) ==
  /\ calls' = [calls EXCEPT ![c] = [@ EXCEPT !.pc = "done", !.res = res,
                                             !.text = text, !.status = 500]]
  /\ response' = ErrorResponse
  /\ UNCHANGED <<CACHE, allocated>>

\* CACHE.products = items; return items; and the handler responds
Stores(c, text, parsed) ==
  /\ CACHE' = [products |-> [id |-> allocated + 1, items |-> parsed]]
  /\ allocated' = allocated + 1
  /\ calls' = [calls EXCEPT ![c] =
                 [@ EXCEPT !.pc = "done", !.text = text, !.status = 200,
                           !.items = [id |-> allocated + 1, items |-> parsed]]]
  /\ response' = Respond([id |-> allocated + 1, items |-> parsed])

InitLoad ==
  /\ CACHE = [products |-> NoProducts]
  /\ calls = NoCalls
  /\ allocated = 0
  /\ p \in {BaseParams, [BaseParams EXCEPT !.limit = <<"1">>]}
  /\ response = NoResponse
  /\ items = <<>>
  /\ r = BaseRecord
  /\ hintGingiva = <<>>
  /\ conn = NoCall

\* the handler starts and loadProducts tests the cache: a cached snapshot is
\* returned and answered from, else the fetch is started and awaited
Enter(c) ==
  /\ calls[c].pc = "new"
  /\ IF CACHE.products # NoProducts
       THEN /\ calls' = [calls EXCEPT ![c] = [@ EXCEPT !.pc = "done", !.status = 200,
                                                       !.items = CACHE.products]]
            /\ response' = Respond(CACHE.products)
       ELSE /\ calls' = [calls EXCEPT ![c] = [@ EXCEPT !.pc = "fetch"]]
            /\ UNCHANGED response
  /\ UNCHANGED <<CACHE, allocated, items, p, r, hintGingiva, conn>>

\* await fetch(fileUrl) settles: a response that is not ok, or a rejection,
\* throws; an ok response is read with await res.text()
FetchSettles(c) ==
  /\ calls[c].pc = "fetch"
  /\ \E res \in FetchOutcomes :
       IF res = "ok"
         THEN /\ calls' = [calls EXCEPT ![c] = [@ EXCEPT !.pc = "text", !.res = res]]
              /\ UNCHANGED <<CACHE, allocated, response>>
         ELSE Fails(c, res, <<>>)
  /\ UNCHANGED <<items, p, r, hintGingiva, conn>>

\* await res.text() settles: the lines are parsed; no item throws, else the
\* array is stored in the cache and returned
TextSettles(c) ==
  /\ calls[c].pc = "text"
  /\ \E text \in Documents :
       IF ParseProducts(text) = <<>>
         THEN Fails(c, "ok", text)
         ELSE Stores(c, text, ParseProducts(text))
  /\ UNCHANGED <<items, p, r, hintGingiva, conn>>

NextLoad == \E c \in Requests : Enter(c) \/ FetchSettles(c) \/ TextSettles(c)

SpecLoad == InitLoad /\ [][NextLoad]_vars

-----------------------------------------------------------------------------
(* Properties of the derivers (checked under SpecDerive)                   *)

P06 == <<"P","0","6">>

P07 == <<"P","0","7">>

Called == conn.fn # "none"

\* the record carries no explicit connection value, in either spelling
NoExplicit(rec) == rec.connection_mm = <<>> /\ ExplicitField(rec) = <<>>

NoPlatformDefault(rec) == normPlatform(rec.platform) \notin {P06, P07}

\* the candidates of the deriver fn that survive the diameter / hint
\* exclusion and the range filter, in extraction order
SurvivorsOf(fn) ==
  IF fn = "facets"
    THEN Survivors(TextCandidates(r), getPartDiameter(r), toNum(hintGingiva))
  ELSE IF fn = "enrich"
    THEN Survivors(TextCandidates_enrich(r), getPartDiameter(r), null)
  ELSE Survivors(Mentions(NameOf(r)), getPartDiameter_search(r), null)

\* C1: range invariant.  Whatever the record and the hint, each deriver
\* returns null or a value v with 3.0 <= v <= 6.5.
C1_RangeInvariant ==
  Called => (conn.value = null \/ (conn.value >= RangeLo /\ conn.value <= RangeHi))

\* C2: exclusion invariant.  A non-null derived value is never within
\* 0.11 mm of the record's own diameter (when known) nor of the supplied
\* hint (the hint reaches the facets handler's deriver only).
C2_ExclusionInvariant ==
  (Called /\ conn.value # null) =>
    /\ ~approxEqNum(conn.value, getPartDiameter(r))
    /\ (conn.fn = "facets" => ~approxEqNum(conn.value, toNum(hintGingiva)))

\* C8: platform default.  Without an explicit connection value, a platform
\* that canonicalizes to P06 derives 4.1 and one that canonicalizes to P07
\* derives 5.0, whatever the names, the diameter and the hint are.
C8_PlatformDefault ==
  (Called /\ NoExplicit(r)) =>
    /\ (normPlatform(r.platform) = P06 => conn.value = PlatformDefault41)
    /\ (normPlatform(r.platform) = P07 => conn.value = PlatformDefault50)

\* the snap behaviour for the deriver that was called
Snaps ==
  LET surv == SurvivorsOf(conn.fn)
  IN (NoExplicit(r) /\ NoPlatformDefault(r) /\ surv # <<>>) =>
       /\ (surv[1] \in 371..379 => conn.value = SnapCenter)
       /\ (surv[1] = 412 => conn.value = 410)

\* C9: snap behaviour.  When the first surviving text candidate is a value
\* from 3.71 to 3.79 the deriver returns exactly 3.75; when it is 4.12 the
\* deriver returns 4.1.
C9_SnapBehaviour == Called => Snaps

\* the offline deriver alone does snap
EnrichSnaps == conn.fn = "enrich" => Snaps

\* C10: whitelist validation and tie-break.  Without an explicit value and
\* without a platform default, the deriver returns the first surviving
\* candidate whose snapped / rounded value is whitelisted, snapped, and null
\* when none passes.
C10_WhitelistFirstPassing ==
  (Called /\ NoExplicit(r) /\ NoPlatformDefault(r)) =>
    conn.value = FirstAllowed(SurvivorsOf(conn.fn))

-----------------------------------------------------------------------------
(* Properties of the endpoints (checked under Spec)                        *)

\* the parameters a query supplies
Supplied(prm) == {k \in ParamNames : prm[k] # <<>>}

\* the query that supplies only the parameters of prm named in A
Only(prm, A) == [k \in ParamNames |-> IF k \in A THEN prm[k] ELSE <<>>]

NumericParams ==
  {"diameter_mm", "length_mm", "gingiva_mm", "angulation_deg", "connection_mm"}

\* C3: filter conjunction.  For every split of the query's parameters into
\* A and B, filtering by all of them equals filtering by A and then by B.
C3_FilterConjunction ==
  \A A \in SUBSET Supplied(p) :
    applyFilters(items, p)
      = applyFilters(applyFilters(items, Only(p, A)), Only(p, Supplied(p) \ A))

NonIncreasing(list) ==
  \A i \in 1..(Len(list) - 1) : list[i].count >= list[i + 1].count

\* C4: facet cap and order.  Every value list of the facets response holds
\* at most 50 entries, in non-increasing order of count.
C4_FacetCapAndOrder ==
  response.kind = "facets" =>
    \A f \in FacetNames :
      Len(response.facets[f]) <= FacetCap /\ NonIncreasing(response.facets[f])

\* C5: graceful numeric parameters.  A non-empty numeric parameter that
\* does not normalize to a number imposes no constraint: both endpoints
\* keep the records they keep with the parameter omitted.
C5_GracefulNumeric ==
  \A k \in NumericParams :
    (p[k] # <<>> /\ toNum(p[k]) = null) =>
      /\ applyFilters(items, p) = applyFilters(items, [p EXCEPT ![k] = <<>>])
      /\ searchFilter(items, p) = searchFilter(items, [p EXCEPT ![k] = <<>>])

\* the first n matching records, shaped
FirstMatching(n) ==
  LET m == searchFilter(items, p)
  IN [i \in 1..Min(n, Len(m)) |-> Shape(m[i])]

\* C6: limit clamp.  The search endpoint returns the first L matching
\* records for an integer L in [1, 50], L = 10 when limit is absent.
C6_LimitClamp ==
  response.kind = "search" =>
    \E L \in LimitMin..LimitMax :
      /\ (p.limit = <<>> => L = 10)
      /\ response.items = FirstMatching(L)

\* the catalog record a search item was shaped from
RecordOf(item) == CHOOSE rec \in CatalogRecords : rec.sku = item.sku

\* C7: explicit field priority.  For a record that carries a non-empty
\* connection_mm, the connection size of its search item is the normalized
\* explicit value.
C7_ExplicitPriority ==
  response.kind = "search" =>
    \A i \in 1..Len(response.items) :
      RecordOf(response.items[i]).connection_mm # <<>> =>
        response.items[i].connection_mm
          = toNum(RecordOf(response.items[i]).connection_mm)

\* the number a facet bucket's label stands for
BucketValue(bucket) == toNum(bucket.value)

\* C11: connection facet hint exclusion.  With a gingiva_mm hint h, no
\* bucket of the returned connection_mm facet has a (final, snapped or
\* rounded) value within 0.11 mm of h.
C11_FacetHintExclusion ==
  (response.kind = "facets" /\ toNum(p.gingiva_mm) # null) =>
    \A i \in 1..Len(response.facets.connection_mm) :
      ~approxEqNum(BucketValue(response.facets.connection_mm[i]),
                   toNum(p.gingiva_mm))

\* C12: connection facet diameter exclusion.  No bucket value of the
\* returned connection_mm facet is a value of the diameter_mm facet of the
\* same response.
C12_FacetDiameterExclusion ==
  response.kind = "facets" =>
    \A i \in 1..Len(response.facets.connection_mm) :
      \A j \in 1..Len(response.facets.diameter_mm) :
        response.facets.connection_mm[i].value
          # response.facets.diameter_mm[j].value

\* the "<n> mm" mentions inside the parenthesized substrings, in order
RECURSIVE ParenMentions(_)
ParenMentions(parens) ==
  IF parens = <<>> THEN <<>>
  ELSE Mentions(Head(parens)) \o ParenMentions(Tail(parens))

\* parenthesized substrings exist and none of them holds a keyword
ParensWithoutKeyword(name, keywords) ==
  /\ Parens(name) # <<>>
  /\ \A i \in 1..Len(Parens(name)) : ~kwTest(Parens(name)[i], keywords)

\* the result of the facets handler's deriver from the candidates mm
FacetsResultFrom(mm) ==
  Decide(toNum(ExplicitField(r)), mm,
         Survivors(mm, getPartDiameter(r), toNum(hintGingiva)),
         getPartDiameter(r))

\* the result of the offline deriver from the candidates mm
EnrichResultFrom(mm) ==
  Decide_enrich(r.connection_mm, toUpperCase(norm(r.platform)),
                Survivors(mm, getPartDiameter(r), null))

\* C15: candidate pool selection.  When the name holds parenthesized
\* substrings and none of them holds an interface keyword, the deriver
\* decides from the mentions inside the parentheses only, so a mention
\* outside every parenthesis is never returned ahead of one inside.
C15_PoolSelection ==
  /\ (conn.fn = "facets" /\ ParensWithoutKeyword(NameOf(r), KeywordsQuery)) =>
       conn.value = FacetsResultFrom(ParenMentions(Parens(NameOf(r))))
  /\ (conn.fn = "enrich" /\ ParensWithoutKeyword(NameOf(r), KeywordsEnrich)) =>
       conn.value = EnrichResultFrom(ParenMentions(Parens(NameOf(r))))

\* the query without its rotationsschutz parameter
WithoutRotation(prm) == [prm EXCEPT !.rotationsschutz = <<>>]

\* the records of recs whose own rotationsschutz text classifies as X
ClassifiedAs(recs, X) ==
  SelectSeq(recs, LAMBDA rec : parseRotation(rec.rotationsschutz) = X)

\* what the rotation predicate is to keep of the records the other
\* predicates keep
RotationKept(kept, X) == IF X = "" THEN kept ELSE ClassifiedAs(kept, X)

\* C16: rotation-protection predicate.  A query value classified '' excludes
\* no record; one classified X in {with, without} keeps exactly the records
\* whose rotationsschutz text the same detector classifies X.
C16_RotationPredicate ==
  /\ applyFilters(items, p)
       = RotationKept(applyFilters(items, WithoutRotation(p)),
                      parseRotation(p.rotationsschutz))
  /\ searchFilter(items, p)
       = RotationKept(searchFilter(items, WithoutRotation(p)),
                      parseRotation(p.rotationsschutz))

\* the query with connection_mm set to v
WithConnection(prm, v) == [prm EXCEPT !.connection_mm = v]

\* C17: facet-to-filter consistency.  For a query without connection_mm,
\* each bucket {value v, count c} of the connection_mm facet is such that
\* the facets endpoint's filter with connection_mm = v added keeps at
\* least c records.
C17_FacetToFilter ==
  (response.kind = "facets" /\ p.connection_mm = <<>>) =>
    \A i \in 1..Len(response.facets.connection_mm) :
      Len(applyFilters(items,
                       WithConnection(p, response.facets.connection_mm[i].value)))
        >= response.facets.connection_mm[i].count

\* a facets response whose connection facet holds the snapped bucket 3.75
\* counted twice
C17_Witness ==
  /\ response.kind = "facets"
  /\ p.connection_mm = <<>>
  /\ \E i \in 1..Len(response.facets.connection_mm) :
       /\ response.facets.connection_mm[i].value = <<"3",".","7","5">>
       /\ response.facets.connection_mm[i].count = 2

\* C18: endpoint agreement.  For every catalog and query the search
\* endpoint's filter keeps the records the facets endpoint's applyFilters
\* keeps, in the same order.
C18_EndpointAgreement == searchFilter(items, p) = applyFilters(items, p)

-----------------------------------------------------------------------------
(* Properties of the loader (checked under SpecLoad)                       *)

\* the invocations that obtained a snapshot from loadProducts
Served == {c \in Requests : calls[c].items # NoProducts}

\* C13: snapshot stability under concurrency.  Every request that obtains a
\* catalog snapshot obtains the same snapshot object, whatever the
\* interleaving of the requests.
C13_SnapshotStability ==
  \A c \in Served : \A d \in Served : calls[c].items.id = calls[d].items.id

\* the lines of lines that parse as JSON objects, parsed, in order
RECURSIVE ObjectsOf(_)
ObjectsOf(lines) ==
  IF lines = <<>> THEN <<>>
  ELSE (IF JSONparse(Head(lines)).kind = "object"
          THEN <<JSONparse(Head(lines)).value>> ELSE <<>>)
         \o ObjectsOf(Tail(lines))

ParsedObjects(text) == ObjectsOf(SplitLines(text))

\* the fetch was not OK, or no line of the fetched text parses as an object
LoadFailed(c) ==
  \/ calls[c].res \in {"not ok", "rejected"}
  \/ calls[c].res = "ok" /\ ParsedObjects(calls[c].text) = <<>>

====
